---- MODULE Spec2Model ----
(***************************************************************************)
(* Dispatch-and-lifecycle core of the three mock-server harness crates:    *)
(*   http-endpoint-server-harness      (adapter "axum")                    *)
(*   graphql-operation-server-harness  (adapter "async_graphql")           *)
(*   grpc-rpc-server-harness           (adapter "tonic")                   *)
(* One run of Server::run is modelled: the route table and the             *)
(* CompletionTracker built at start-up, the request tasks stepping through *)
(* the handler function one atomic operation at a time, and the run loop   *)
(* that waits for the one-shot shutdown signal.                            *)
(* Two smaller specifications share the module: SpecHandler follows one    *)
(* route's requests from the wire to Handler::respond, SpecRuns lets       *)
(* several run() calls execute side by side.                               *)
(***************************************************************************)
EXTENDS Integers, Sequences, FiniteSets, TLC

\* ---------------------------------------------------------------- bounds
MaxRoutes == 2      \* declarations in one configuration
MaxHandlers == 2    \* handlers declared on one route
MaxRequests == 3    \* requests the clients send during one run
MaxTasks == 2       \* request tasks in flight at the same time
MaxPanics == 1      \* handler invocations that panic during one run
MaxCalls == 3       \* requests sent to the route of the handler pipeline
MaxRuns == 2        \* runs executing concurrently in one process
MaxRunRequests == 2 \* requests sent to each of the concurrent runs
LongPayload == 258  \* bytes of the longest canned gRPC response

Tasks == 1..MaxTasks

Adapters == {"axum", "async_graphql", "tonic"}

\* ------------------------------------------------------------ route keys
\* A route key is a pair: (method, path) for HTTP, (operation type, field
\* name) for GraphQL, (service, method) for gRPC.
DeclKeys(a) ==
    CASE a = "axum"          -> {<<"GET", "/a">>, <<"GET", "/b">>}
      [] a = "async_graphql" -> {<<"Query", "a">>, <<"Query", "b">>,
                                 <<"Mutation", "a">>, <<"Subscription", "a">>}
      [] a = "tonic"         -> {<<"svc", "M1">>, <<"svc", "M2">>}

\* An endpoint / field / method declaration: its key and how many handlers
\* were pushed onto it (Endpoint::new starts with an empty Vec).
Decls(a) == [key : DeclKeys(a), handlers : 0..MaxHandlers]

RECURSIVE SeqsUpTo(_, _)
SeqsUpTo(S, n) ==
    IF n = 0 THEN {<<>>}
    ELSE LET shorter == SeqsUpTo(S, n - 1)
         IN  shorter \cup {Append(s, d) : s \in {x \in shorter : Len(x) = n - 1}, d \in S}

Configs(a) == SeqsUpTo(Decls(a), MaxRoutes)

\* --------------------------------------------------------------- requests
\* What the adapter decodes from the wire.  part1/names give the route key
\* material: HTTP and gRPC name exactly one key; for GraphQL part1 is how the
\* query text begins and names the declared field names the text contains.
\* "malformed" is a body serde_json cannot parse (GraphQL only).
Malformed == [part1 |-> "malformed", names |-> {}]

Requests(a) ==
    CASE a = "axum"          -> {[part1 |-> "GET", names |-> {p}] : p \in {"/a", "/b", "/zz"}}
      [] a = "async_graphql" -> {[part1 |-> "query", names |-> ns] : ns \in SUBSET {"a", "b"}}
                                 \cup {[part1 |-> " mutation", names |-> {"a"}],
                                       [part1 |-> "subscription", names |-> {"a"}],
                                       Malformed}
      [] a = "tonic"         -> {[part1 |-> "svc", names |-> {m}] : m \in {"M1", "M2", "Zz"}}

NoReq == [part1 |-> "", names |-> {}]
NoKey == <<"", "">>

\* Socket addresses: the configured one asks for port 0, the listener reports
\* the port the system assigned.
RequestedAddr == "127.0.0.1:0"
BoundAddr == "127.0.0.1:assigned"
Unbound == "none"

IdleTask == [pc |-> "idle", req |-> NoReq, pending |-> {}, cur |-> NoKey,
             call_index |-> 0, called |-> 0, served |-> {}]

VARIABLES
    adapter,          \* which Server implementation runs
    config,           \* the declarations handed to run()
    pc,               \* position of run()
    routes,           \* route key -> [handlers, call_count]
    total_handlers,   \* CompletionTracker.total_handlers
    handlers_called,  \* CompletionTracker.handlers_called
    shutdown_tx,      \* TRUE while the Mutex holds Some(sender)
    signals,          \* number of tx.send(()) executed
    collector,        \* the records pushed into the collector
    collector_holder, \* TRUE while the holder still contains the collector
    output,           \* what run() returned
    tasks,            \* the request tasks
    nextId,           \* requests accepted so far
    replies,          \* the responses written to the wire
    on_ready_calls,   \* invocations of the on_ready callback
    matched_received, \* history: requests matching a route, received before run() returned
    slot_requests,    \* history: requests that called handler_called() at least once
    on_ready,         \* "Some" when run() was given a callback, else "None"
    local_addr,       \* listener.local_addr() once bound
    on_ready_arg,     \* the address the callback was called with
    result,           \* what run() returned: "Ok" / "Err", "running" before
    panics,           \* handler invocations that panicked
    h_handlers,       \* handler pipeline: the Vec<Handler> of one route
    h_calls,          \* handler pipeline: the route's call_count
    h_log,            \* handler pipeline: what each request decoded to and got back
    runs              \* concurrent runs: the state each run() call owns

vars == <<adapter, config, pc, routes, total_handlers, handlers_called, shutdown_tx,
          signals, collector, collector_holder, output, tasks, nextId, replies,
          on_ready_calls, matched_received, slot_requests,
          on_ready, local_addr, on_ready_arg, result, panics,
          h_handlers, h_calls, h_log, runs>>

\* The variables of the handler pipeline and of the concurrent runs; the
\* single run leaves them alone.
auxVars == <<h_handlers, h_calls, h_log, runs>>

\* ------------------------------------------------------- pure definitions
Max(a, b) == IF a >= b THEN a ELSE b
Min(a, b) == IF a <= b THEN a ELSE b

RECURSIVE SumSeq(_)
SumSeq(s) == IF s = <<>> THEN 0 ELSE Head(s) + SumSeq(Tail(s))

\* total_handlers: every declaration contributes len().max(1).
TotalHandlers(cfg) == SumSeq([i \in DOMAIN cfg |-> Max(cfg[i].handlers, 1)])

\* Declarations that end up in the dispatch table.  GraphQL skips
\* Subscription operations.
Registered(a, cfg) ==
    {i \in DOMAIN cfg : ~(a = "async_graphql" /\ cfg[i].key[1] = "Subscription")}

\* HashMap::insert: a later declaration of the same key replaces the earlier.
LastDecl(a, cfg, k) ==
    CHOOSE i \in Registered(a, cfg) :
        /\ cfg[i].key = k
        /\ \A j \in Registered(a, cfg) : cfg[j].key = k => j <= i

BuildRoutes(a, cfg) ==
    [k \in {cfg[i].key : i \in Registered(a, cfg)} |->
        [handlers |-> cfg[LastDecl(a, cfg, k)].handlers, call_count |-> 0]]

\* Router::route panics when the same method and path are registered twice.
Overlapping(cfg) == \E i, j \in DOMAIN cfg : i < j /\ cfg[i].key = cfg[j].key

\* request.query.trim(): the text without surrounding whitespace.
QueryTrim(text) == IF text = " mutation" THEN "mutation" ELSE text

SelectedMap_NoTrim(text) == IF text = "mutation" THEN "Mutation" ELSE "Query"

\* handle_graphql: mutation_handlers when the trimmed query starts with
\* "mutation", query_handlers for everything else.
SelectedMap(text) == IF QueryTrim(text) = "mutation" THEN "Mutation" ELSE "Query"

\* First component of the route key a request is looked up under.
RouteType(a, part1) == IF a = "async_graphql" THEN SelectedMap(part1) ELSE part1

\* The routes a decoded request is dispatched to.
MatchedRoutes(req) ==
    {k \in DOMAIN routes : k[1] = RouteType(adapter, req.part1) /\ k[2] \in req.names}

HandlerIndex_Wrap(call_index, handler_count) ==
    IF handler_count = 0 THEN 0 ELSE call_index % handler_count

HandlerIndex_First(call_index, handler_count) == 0

\* handler_index = call_index.min(handler_count.saturating_sub(1))
HandlerIndex(call_index, handler_count) == Min(call_index, Max(handler_count - 1, 0))

Threshold_Always(a, handler_count) == handler_count + 1

\* The bound the call index is compared with before handler_called().
Threshold(a, handler_count) ==
    IF a = "tonic" THEN Max(handler_count, 1) ELSE handler_count

FetchAdd_Lost(v) == v

\* AtomicUsize::fetch_add(1, SeqCst): the value stored.
FetchAdd(v) == v + 1

InFlight == {t \in Tasks : tasks[t].pc # "idle"}

\* ------------------------------------------------------------------ Init
Init ==
    /\ adapter \in Adapters
    /\ config \in Configs(adapter)
    /\ pc = "Created"
    /\ routes = <<>>
    /\ total_handlers = 0
    /\ handlers_called = 0
    /\ shutdown_tx = FALSE
    /\ signals = 0
    /\ collector = <<>>
    /\ collector_holder = FALSE
    /\ output = <<>>
    /\ tasks = [t \in Tasks |-> IdleTask]
    /\ nextId = 0
    /\ replies = {}
    /\ on_ready_calls = 0
    /\ matched_received = 0
    /\ slot_requests = 0
    /\ on_ready \in {"Some", "None"}
    /\ local_addr = Unbound
    /\ on_ready_arg = Unbound
    /\ result = "running"
    /\ panics = 0
    /\ h_handlers = <<>>
    /\ h_calls = 0
    /\ h_log = {}
    /\ runs = <<>>

\* ------------------------------------------------------------ run(): start
\* run() builds the collector holder, the CompletionTracker and the routes.
StartRun ==
    /\ pc = "Created"
    /\ collector_holder' = TRUE
    /\ total_handlers' = TotalHandlers(config)
    /\ shutdown_tx' = TRUE
    /\ IF adapter = "axum" /\ Overlapping(config)
       THEN /\ pc' = "Panicked"
            /\ UNCHANGED routes
       ELSE /\ pc' = "Binding"
            /\ routes' = BuildRoutes(adapter, config)
    /\ UNCHANGED <<adapter, config, handlers_called, signals, collector, output,
                   tasks, nextId, replies, on_ready_calls, matched_received, slot_requests,
                   on_ready, local_addr, on_ready_arg, result, panics, auxVars>>

\* What run() does with the outcome of TcpListener::bind / local_addr: the
\* `?` operator returns the error at once.
BindOutcome_Ignored(ok) == "Ready"

BindOutcome(ok) == IF ok THEN "Ready" ELSE "Failed"

\* TcpListener::bind and local_addr succeed.
Bind ==
    /\ pc = "Binding"
    /\ pc' = BindOutcome(TRUE)
    /\ local_addr' = BoundAddr
    /\ UNCHANGED <<adapter, config, routes, total_handlers, handlers_called, shutdown_tx,
                   signals, collector, collector_holder, output, tasks, nextId, replies,
                   on_ready_calls, matched_received, slot_requests,
                   on_ready, on_ready_arg, result, panics, auxVars>>

\* TcpListener::bind (or local_addr) fails: run() returns
\* Err(HarnessError::ServerError) before anything else happens.
BindFails ==
    /\ pc = "Binding"
    /\ pc' = BindOutcome(FALSE)
    /\ result' = "Err"
    /\ UNCHANGED <<adapter, config, routes, total_handlers, handlers_called, shutdown_tx,
                   signals, collector, collector_holder, output, tasks, nextId, replies,
                   on_ready_calls, matched_received, slot_requests,
                   on_ready, local_addr, on_ready_arg, panics, auxVars>>

\* The address handed to the callback.
ReadyArg_Requested(requested, bound) == requested

ReadyArg(requested, bound) == bound

\* if let Some(callback) = on_ready { callback(addr) }, then the accept loop
\* starts.
OnReady ==
    /\ pc = "Ready"
    /\ IF on_ready = "Some"
       THEN /\ on_ready_calls' = on_ready_calls + 1
            /\ on_ready_arg' = ReadyArg(RequestedAddr, local_addr)
       ELSE UNCHANGED <<on_ready_calls, on_ready_arg>>
    /\ pc' = "Serving"
    /\ UNCHANGED <<adapter, config, routes, total_handlers, handlers_called, shutdown_tx,
                   signals, collector, collector_holder, output, tasks, nextId, replies,
                   matched_received, slot_requests,
                   on_ready, local_addr, result, panics, auxVars>>

\* ---------------------------------------------------------- request tasks
\* A request can reach a handler while the accept loop runs.  The gRPC
\* adapter spawns its connection tasks and never joins them, so a connection
\* opened before the loop ended keeps serving requests afterwards.
Accepting ==
    \/ pc = "Serving"
    \/ adapter = "tonic" /\ pc \in {"ShuttingDown", "Stopped"} /\ nextId > 0

Arrive(t) ==
    /\ Accepting
    /\ nextId < MaxRequests
    /\ tasks[t].pc = "idle"
    /\ \A u \in Tasks : u < t => tasks[u].pc # "idle"
    /\ nextId' = nextId + 1
    /\ \E req \in Requests(adapter) :
          /\ tasks' = [tasks EXCEPT ![t] = [IdleTask EXCEPT !.pc = "dispatch",
                                                            !.req = req]]
          /\ matched_received' = IF pc # "Stopped" /\ MatchedRoutes(req) # {}
                                  THEN matched_received + 1 ELSE matched_received
    /\ UNCHANGED <<adapter, config, pc, routes, total_handlers, handlers_called,
                   shutdown_tx, signals, collector, collector_holder, output, replies,
                   on_ready_calls, slot_requests,
                   on_ready, local_addr, on_ready_arg, result, panics, auxVars>>

Collect_Skip(rec) == collector

Collect_KeepLast(rec) == <<rec>>

Collect_Prepend(rec) == <<rec>> \o collector

\* Collector::collect through the adapter's wrapper.  HTTP and gRPC push only
\* while the holder still contains the collector; GraphQL holds an Arc<C>.
Collect(rec) ==
    IF adapter = "async_graphql" \/ collector_holder
    THEN Append(collector, rec)
    ELSE collector

\* serde_json::from_str::<GraphQLRequest>(&body) returns Ok.
Decodes_Always(req) == TRUE

Decodes(req) == req # Malformed

Finish(t, kind, served) ==
    /\ replies' = replies \cup {[req |-> tasks[t].req, kind |-> kind, served |-> served]}
    /\ tasks' = [tasks EXCEPT ![t] = IdleTask]

\* Route lookup and the collect step, up to the first atomic counter access.
Dispatch(t) ==
    /\ tasks[t].pc = "dispatch"
    /\ LET req == tasks[t].req
           m == MatchedRoutes(req)
           rec == req
       IN  CASE adapter = "axum" ->
                  IF m = {}
                  THEN /\ Finish(t, "not_found", {})
                       /\ UNCHANGED collector
                  ELSE /\ collector' = Collect(rec)
                       /\ \E k \in m :
                            tasks' = [tasks EXCEPT ![t].pc = "fetch", ![t].cur = k]
                       /\ UNCHANGED replies
              [] adapter = "tonic" ->
                  IF m = {}
                  THEN /\ Finish(t, "unimplemented", {})
                       /\ UNCHANGED collector
                  ELSE /\ collector' = Collect(rec)
                       /\ \E k \in m :
                            tasks' = [tasks EXCEPT ![t].pc = "fetch", ![t].cur = k]
                       /\ UNCHANGED replies
              [] adapter = "async_graphql" ->
                  IF ~Decodes(req)
                  THEN /\ Finish(t, "parse_error", {})
                       /\ UNCHANGED collector
                  ELSE /\ collector' = Collect(rec)
                       /\ IF m = {}
                          THEN Finish(t, "data", {})
                          ELSE /\ \E k \in m :
                                    tasks' = [tasks EXCEPT ![t].pc = "fetch",
                                                           ![t].cur = k,
                                                           ![t].pending = m \ {k}]
                               /\ UNCHANGED replies
    /\ UNCHANGED <<adapter, config, pc, routes, total_handlers, handlers_called,
                   shutdown_tx, signals, collector_holder, output, nextId, on_ready_calls, matched_received, slot_requests,
                   on_ready, local_addr, on_ready_arg, result, panics, auxVars>>

RouteStateCalled_Pop(route) ==
    [handlers |-> Max(route.handlers - 1, 0), call_count |-> FetchAdd(route.call_count)]

\* What a request does to the RouteState / EndpointState / FieldState it was
\* dispatched to: the handlers are only read, call_count is incremented.
RouteStateCalled(route) == [route EXCEPT !.call_count = FetchAdd(route.call_count)]

\* call_count.fetch_add(1) and the comparison that decides about
\* handler_called().
FetchCallCount(t) ==
    /\ tasks[t].pc = "fetch"
    /\ LET k == tasks[t].cur
           call_index == routes[k].call_count
           handler_count == routes[k].handlers
       IN  /\ routes' = [routes EXCEPT ![k] = RouteStateCalled(routes[k])]
           /\ tasks' = [tasks EXCEPT
                  ![t].call_index = call_index,
                  ![t].pc = IF call_index < Threshold(adapter, handler_count)
                            THEN "notify" ELSE "respond"]
    /\ UNCHANGED <<adapter, config, pc, total_handlers, handlers_called, shutdown_tx,
                   signals, collector, collector_holder, output, nextId, replies,
                   on_ready_calls, matched_received, slot_requests,
                   on_ready, local_addr, on_ready_arg, result, panics, auxVars>>

\* handler_called(): handlers_called.fetch_add(1) + 1 and the comparison.
FiresAt_OneEarly(called, total) == called >= total - 1

FiresAt(called, total) == called >= total

HandlerCalledAdd(t) ==
    /\ tasks[t].pc = "notify"
    /\ LET called == FetchAdd(handlers_called)
       IN  /\ handlers_called' = called
           /\ slot_requests' = IF tasks[t].called = 0
                                THEN slot_requests + 1 ELSE slot_requests
           /\ tasks' = [tasks EXCEPT
                  ![t].called = called,
                  ![t].pc = IF FiresAt(called, total_handlers) THEN "send" ELSE "respond"]
    /\ UNCHANGED <<adapter, config, pc, routes, total_handlers, shutdown_tx, signals,
                   collector, collector_holder, output, nextId, replies, on_ready_calls,
                   matched_received,
                   on_ready, local_addr, on_ready_arg, result, panics, auxVars>>

\* handler_called(): shutdown_tx.lock().await.take() and tx.send(()).
TakeSender_Keep(tx) == tx

TakeSender(tx) == FALSE

HandlerCalledSend(t) ==
    /\ tasks[t].pc = "send"
    /\ IF shutdown_tx
       THEN /\ shutdown_tx' = TakeSender(shutdown_tx)
            /\ signals' = signals + 1
       ELSE UNCHANGED <<shutdown_tx, signals>>
    /\ tasks' = [tasks EXCEPT ![t].pc = "respond"]
    /\ UNCHANGED <<adapter, config, pc, routes, total_handlers, handlers_called,
                   collector, collector_holder, output, nextId, replies, on_ready_calls, matched_received, slot_requests,
                   on_ready, local_addr, on_ready_arg, result, panics, auxVars>>

\* handlers.get(handler_index) and handler.respond; the GraphQL loop then
\* goes on to the next matching field, the others return the response.
ReplyKind(a, served) ==
    CASE a = "async_graphql" -> "data"
      [] a = "axum" -> IF served = {} THEN "no_handler" ELSE "handler"
      [] a = "tonic" -> IF served = {} THEN "empty" ELSE "handler"

Respond(t) ==
    /\ tasks[t].pc = "respond"
    /\ LET k == tasks[t].cur
           handler_count == routes[k].handlers
           handler_index == HandlerIndex(tasks[t].call_index, handler_count)
           served == IF handler_index < handler_count
                     THEN tasks[t].served \cup {<<k, tasks[t].call_index, handler_index>>}
                     ELSE tasks[t].served
       IN  IF tasks[t].pending # {}
           THEN /\ \E n \in tasks[t].pending :
                      tasks' = [tasks EXCEPT ![t].pc = "fetch",
                                             ![t].cur = n,
                                             ![t].pending = tasks[t].pending \ {n},
                                             ![t].served = served]
                /\ UNCHANGED replies
           ELSE Finish(t, ReplyKind(adapter, served), served)
    /\ UNCHANGED <<adapter, config, pc, routes, total_handlers, handlers_called,
                   shutdown_tx, signals, collector, collector_holder, output, nextId,
                   on_ready_calls, matched_received, slot_requests,
                   on_ready, local_addr, on_ready_arg, result, panics, auxVars>>

\* ------------------------------------------------------- run(): shutdown
\* axum::serve(..).with_graceful_shutdown: the signal future resolves and
\* the accept loop stops.
GracefulShutdown ==
    /\ adapter \in {"axum", "async_graphql"}
    /\ pc = "Serving"
    /\ signals > 0
    /\ pc' = "ShuttingDown"
    /\ UNCHANGED <<adapter, config, routes, total_handlers, handlers_called, shutdown_tx,
                   signals, collector, collector_holder, output, tasks, nextId, replies,
                   on_ready_calls, matched_received, slot_requests,
                   on_ready, local_addr, on_ready_arg, result, panics, auxVars>>

\* Owners of the GraphQL adapter's Arc<C>: run() itself, the ServerState
\* inside the router for as long as the server built from it exists, and
\* every request in flight (its State extractor holds a clone of the state).
CollectorRefs_ServerKept(serverAlive, inflight) == 2 + inflight

CollectorRefs(serverAlive, inflight) == 1 + (IF serverAlive THEN 1 ELSE 0) + inflight

\* Taking the collector out at the end of run(): Arc::try_unwrap needs to be
\* the only owner (GraphQL), Option::take needs the holder to be full (HTTP,
\* gRPC); anything else is Err(HarnessError::ServerError).
ExtractCollector(a, holder, refs) ==
    IF a = "async_graphql"
    THEN (IF refs = 1 THEN "Ok" ELSE "Err")
    ELSE (IF holder THEN "Ok" ELSE "Err")

\* serve() returns once the open connections have finished; run() takes the
\* collector and returns its output.
Drained == InFlight = {}

ServeReturns ==
    /\ adapter \in {"axum", "async_graphql"}
    /\ pc = "ShuttingDown"
    /\ Drained
    /\ LET res == ExtractCollector(adapter, collector_holder,
                                   CollectorRefs(FALSE, Cardinality(InFlight)))
       IN  /\ result' = res
           /\ pc' = IF res = "Ok" THEN "Stopped" ELSE "Failed"
           /\ output' = IF res = "Ok" THEN collector ELSE <<>>
    /\ collector_holder' = FALSE
    /\ UNCHANGED <<adapter, config, routes, total_handlers, handlers_called, shutdown_tx,
                   signals, collector, tasks, nextId, replies, on_ready_calls, matched_received, slot_requests,
                   on_ready, local_addr, on_ready_arg, panics, auxVars>>

\* The gRPC select! loop: the receiver branch resolves and breaks the loop;
\* nothing is accepted any more, the spawned connection tasks go on.
TonicBreak ==
    /\ adapter = "tonic"
    /\ pc = "Serving"
    /\ signals > 0
    /\ pc' = "ShuttingDown"
    /\ UNCHANGED <<adapter, config, routes, total_handlers, handlers_called, shutdown_tx,
                   signals, collector, collector_holder, output, tasks, nextId, replies,
                   on_ready_calls, matched_received, slot_requests,
                   on_ready, local_addr, on_ready_arg, result, panics, auxVars>>

\* After the loop run() takes the collector and returns, without waiting for
\* the spawned connection tasks.
TonicReturns ==
    /\ adapter = "tonic"
    /\ pc = "ShuttingDown"
    /\ LET res == ExtractCollector(adapter, collector_holder,
                                   CollectorRefs(FALSE, Cardinality(InFlight)))
       IN  /\ result' = res
           /\ pc' = IF res = "Ok" THEN "Stopped" ELSE "Failed"
           /\ output' = IF res = "Ok" THEN collector ELSE <<>>
    /\ collector_holder' = FALSE
    /\ UNCHANGED <<adapter, config, routes, total_handlers, handlers_called, shutdown_tx,
                   signals, collector, tasks, nextId, replies, on_ready_calls, matched_received, slot_requests,
                   on_ready, local_addr, on_ready_arg, panics, auxVars>>

Next ==
    \/ StartRun
    \/ Bind
    \/ BindFails
    \/ OnReady
    \/ \E t \in Tasks : Arrive(t)
    \/ \E t \in Tasks : Dispatch(t)
    \/ \E t \in Tasks : FetchCallCount(t)
    \/ \E t \in Tasks : HandlerCalledAdd(t)
    \/ \E t \in Tasks : HandlerCalledSend(t)
    \/ \E t \in Tasks : Respond(t)
    \/ GracefulShutdown
    \/ ServeReturns
    \/ TonicBreak
    \/ TonicReturns

Spec == Init /\ [][Next]_vars

\* --------------------------------------------------------- handler panic
\* A Handler::Dynamic closure panics inside handler.respond.  Nothing in the
\* adapters catches the unwind: the task serving the connection ends, the
\* client gets no response at all, and what the request did before
\* (collect, call_count, handler_called) stays done.
HandlerPanics(t) ==
    /\ panics < MaxPanics
    /\ tasks[t].pc = "respond"
    /\ HandlerIndex(tasks[t].call_index, routes[tasks[t].cur].handlers)
          < routes[tasks[t].cur].handlers
    /\ panics' = panics + 1
    /\ Finish(t, "aborted", tasks[t].served)
    /\ UNCHANGED <<adapter, config, pc, routes, total_handlers, handlers_called,
                   shutdown_tx, signals, collector, collector_holder, output, nextId,
                   on_ready_calls, matched_received, slot_requests,
                   on_ready, local_addr, on_ready_arg, result, auxVars>>

NextPanic ==
    \/ Next
    \/ \E t \in Tasks : HandlerPanics(t)

SpecPanic == Init /\ [][NextPanic]_vars

\* ------------------------------------------------------- handler pipeline
\* What one route does with a request once it is matched: decode, build the
\* record and the handler's context, pick the handler, call respond.  The
\* values are kept small: an Option is a sequence of length 0 or 1, a
\* payload a sequence of bytes.

\* Length of the gRPC message prefix (compression flag + length).
GrpcPrefixLen == 5

\* Requests as they arrive on the wire for the route under test.
Wire(a) ==
    CASE a = "axum" ->
            [method : {"GET", "HEAD"}, path : {"/a"}, body : {<<>>, <<7>>}]
      [] a = "async_graphql" ->
            [query : {"{ a }"}, operation_name : {<<>>, <<"Op">>},
             variables : {<<>>, <<"v1">>}]
      [] a = "tonic" ->
            [path : {"/svc/M1"},
             body : {<<>>, <<0, 0, 0, 0, 0>>, <<0, 0, 0, 0, 1, 7>>, <<0, 0, 0, 0, 2, 7, 8>>}]

\* handle_request: the method name is mapped onto the Method enum, anything
\* unknown onto Get.
ParseMethod(m) ==
    CASE m = "GET" -> "Get" [] m = "POST" -> "Post" [] m = "PUT" -> "Put"
      [] m = "PATCH" -> "Patch" [] m = "DELETE" -> "Delete" [] m = "HEAD" -> "Head"
      [] m = "OPTIONS" -> "Options" [] OTHER -> "Get"

\* handle_grpc_request: the bytes behind the prefix, nothing for a body of
\* at most five bytes.
GrpcMessage(body) ==
    IF Len(body) > GrpcPrefixLen THEN SubSeq(body, GrpcPrefixLen + 1, Len(body)) ELSE <<>>

\* The record handed to Collector::collect.
CollectedRequest(a, w) ==
    CASE a = "axum" -> [method |-> ParseMethod(w.method), path |-> w.path, body |-> w.body]
      [] a = "async_graphql" ->
            [query |-> w.query, operation_name |-> w.operation_name,
             variables |-> w.variables]
      [] a = "tonic" -> [service |-> "svc", method |-> "M1", message |-> GrpcMessage(w.body)]

RequestContext_Blank(a, w) ==
    CASE a = "axum" -> [method |-> "Get", path |-> w.path, body |-> <<>>]
      [] a = "async_graphql" ->
            [field_name |-> "a", query |-> "", operation_name |-> <<>>, variables |-> <<>>]
      [] a = "tonic" -> [service |-> "svc", method |-> "M1", message |-> <<>>]

\* The context handler.respond is called with.
RequestContext(a, w) ==
    CASE a = "axum" -> CollectedRequest(a, w)
      [] a = "async_graphql" ->
            [field_name |-> "a", query |-> w.query, operation_name |-> w.operation_name,
             variables |-> w.variables]
      [] a = "tonic" -> [service |-> "svc", method |-> "M1", message |-> GrpcMessage(w.body)]

\* The payload part of a context.
Payload(a, ctx) ==
    CASE a = "axum" -> ctx.body
      [] a = "async_graphql" -> ctx.variables
      [] a = "tonic" -> ctx.message

\* The payload a well-formed wire request carries.
WirePayload(a, w) ==
    CASE a = "axum" -> w.body
      [] a = "async_graphql" -> w.variables
      [] a = "tonic" -> IF Len(w.body) <= GrpcPrefixLen THEN <<>>
                        ELSE [i \in 1..(Len(w.body) - GrpcPrefixLen) |-> w.body[i + GrpcPrefixLen]]

\* The closures wrapped by Handler::Dynamic: functions of the context.
DynFns == {"echo", "twice"}

ApplyFn(a, f, ctx) ==
    IF f = "echo" THEN Payload(a, ctx) ELSE Payload(a, ctx) \o Payload(a, ctx)

StaticData(a) ==
    CASE a = "async_graphql" -> {<<"s1">>, <<"s2">>}
      [] a = "axum" -> {<<1>>, <<2>>}
      [] a = "tonic" -> {<<1>>, <<2>>, [i \in 1..LongPayload |-> 0]}

Handlers(a) ==
    {[kind |-> "Static", data |-> d, f |-> ""] : d \in StaticData(a)}
      \cup {[kind |-> "Dynamic", data |-> <<>>, f |-> fn] : fn \in DynFns}

\* Handler::response(): the canned response, an empty one for Dynamic.
HandlerRespond_Canned(a, h, ctx) == h.data

\* Handler::respond(&self, ctx).
HandlerRespond(a, h, ctx) ==
    IF h.kind = "Static" THEN h.data ELSE ApplyFn(a, h.f, ctx)

GrpcFrame_LittleEndian(payload) ==
    LET len == Len(payload)
    IN  <<0, len % 256, (len \div 256) % 256, (len \div 65536) % 256,
          (len \div 16777216) % 256>> \o payload

\* The gRPC response body: the compression flag 0, response_data.len() as
\* u32 in big-endian bytes (the cast keeps the low 32 bits), the payload.
GrpcFrame(payload) ==
    LET len == Len(payload)
    IN  <<0, (len \div 16777216) % 256, (len \div 65536) % 256, (len \div 256) % 256,
          len % 256>> \o payload

InitHandler ==
    /\ adapter \in Adapters
    /\ config = <<>>
    /\ pc = "Created"
    /\ routes = <<>>
    /\ total_handlers = 0
    /\ handlers_called = 0
    /\ shutdown_tx = FALSE
    /\ signals = 0
    /\ collector = <<>>
    /\ collector_holder = FALSE
    /\ output = <<>>
    /\ tasks = [t \in Tasks |-> IdleTask]
    /\ nextId = 0
    /\ replies = {}
    /\ on_ready_calls = 0
    /\ matched_received = 0
    /\ slot_requests = 0
    /\ on_ready = "None"
    /\ local_addr = Unbound
    /\ on_ready_arg = Unbound
    /\ result = "running"
    /\ panics = 0
    /\ h_handlers \in {hs \in SeqsUpTo(Handlers(adapter), MaxHandlers) : hs # <<>>}
    /\ h_calls = 0
    /\ h_log = {}
    /\ runs = <<>>

\* One request to the route: decode, collect, fetch_add, pick the handler,
\* respond; the gRPC adapter then frames the payload (frame stays empty for
\* the other two).
ServeOne ==
    /\ h_calls < MaxCalls
    /\ \E w \in Wire(adapter) :
          LET call_index == h_calls
              handler_index == HandlerIndex(call_index, Len(h_handlers))
              ctx == RequestContext(adapter, w)
              response == HandlerRespond(adapter, h_handlers[handler_index + 1], ctx)
          IN  /\ h_calls' = FetchAdd(h_calls)
              /\ h_log' = h_log \cup
                    {[wire |-> w,
                      record |-> CollectedRequest(adapter, w),
                      ctx |-> ctx,
                      call_index |-> call_index,
                      handler_index |-> handler_index,
                      response |-> response,
                      frame |-> IF adapter = "tonic" THEN GrpcFrame(response) ELSE <<>>]}
    /\ UNCHANGED <<adapter, config, pc, routes, total_handlers, handlers_called,
                   shutdown_tx, signals, collector, collector_holder, output, tasks,
                   nextId, replies, on_ready_calls, matched_received, slot_requests,
                   on_ready, local_addr, on_ready_arg, result, panics, h_handlers, runs>>

NextHandler == ServeOne

SpecHandler == InitHandler /\ [][NextHandler]_vars

\* -------------------------------------------------------- concurrent runs
\* Several run() calls in one process.  Everything a run works on is created
\* inside run(): the collector holder, the CompletionTracker with its
\* channel, and one call_count per route.  A request is handled in one step
\* here; the interleaving inside one run is what Spec explores.
Runs == 1..MaxRuns

\* The CompletionTracker a run's handlers hold.
TrackerOf_Shared(r) == 1

TrackerOf(r) == r

NewRun(cfg) ==
    [config |-> cfg, pc |-> "Created", routes |-> <<>>, total_handlers |-> 0,
     handlers_called |-> 0, shutdown_tx |-> FALSE, signals |-> 0,
     collector |-> <<>>, output |-> <<>>, sent |-> 0]

InitRuns ==
    /\ adapter \in Adapters
    /\ config = <<>>
    /\ pc = "Created"
    /\ routes = <<>>
    /\ total_handlers = 0
    /\ handlers_called = 0
    /\ shutdown_tx = FALSE
    /\ signals = 0
    /\ collector = <<>>
    /\ collector_holder = FALSE
    /\ output = <<>>
    /\ tasks = [t \in Tasks |-> IdleTask]
    /\ nextId = 0
    /\ replies = {}
    /\ on_ready_calls = 0
    /\ matched_received = 0
    /\ slot_requests = 0
    /\ on_ready = "None"
    /\ local_addr = Unbound
    /\ on_ready_arg = Unbound
    /\ result = "running"
    /\ panics = 0
    /\ h_handlers = <<>>
    /\ h_calls = 0
    /\ h_log = {}
    /\ runs \in [Runs -> {NewRun(cfg) : cfg \in SeqsUpTo(Decls(adapter), 1)}]

\* run() up to the accept loop: total_handlers, the tracker, the routes.
RunStart(r) ==
    /\ runs[r].pc = "Created"
    /\ runs' = [runs EXCEPT ![r].pc = "Serving",
                            ![r].routes = BuildRoutes(adapter, runs[r].config),
                            ![r].total_handlers = TotalHandlers(runs[r].config),
                            ![r].shutdown_tx = TRUE]
    /\ UNCHANGED <<adapter, config, pc, routes, total_handlers, handlers_called,
                   shutdown_tx, signals, collector, collector_holder, output, tasks,
                   nextId, replies, on_ready_calls, matched_received, slot_requests,
                   on_ready, local_addr, on_ready_arg, result, panics,
                   h_handlers, h_calls, h_log>>

\* One request sent to run r and handled to the end: collect, fetch_add,
\* handler_called() on the tracker the run's handlers hold.
RunServe(r) ==
    /\ runs[r].pc = "Serving"
    /\ runs[r].sent < MaxRunRequests
    /\ \E req \in Requests(adapter) :
          LET m == {k \in DOMAIN runs[r].routes :
                       k[1] = RouteType(adapter, req.part1) /\ k[2] \in req.names}
              collects == IF adapter = "async_graphql" THEN Decodes(req) ELSE m # {}
              afterCollect == [runs EXCEPT
                                 ![r].sent = runs[r].sent + 1,
                                 ![r].collector = IF collects THEN Append(runs[r].collector, req)
                                                  ELSE runs[r].collector]
          IN  IF m = {}
              THEN runs' = afterCollect
              ELSE \E k \in m :
                     LET call_index == runs[r].routes[k].call_count
                         counted == [afterCollect EXCEPT
                                       ![r].routes[k].call_count = FetchAdd(call_index)]
                         tr == TrackerOf(r)
                         called == FetchAdd(counted[tr].handlers_called)
                         fires == FiresAt(called, counted[tr].total_handlers)
                                    /\ counted[tr].shutdown_tx
                     IN  IF call_index < Threshold(adapter, runs[r].routes[k].handlers)
                         THEN runs' = [counted EXCEPT
                                  ![tr].handlers_called = called,
                                  ![tr].shutdown_tx = IF fires THEN TakeSender(counted[tr].shutdown_tx)
                                                      ELSE counted[tr].shutdown_tx,
                                  ![tr].signals = IF fires THEN counted[tr].signals + 1
                                                  ELSE counted[tr].signals]
                         ELSE runs' = counted
    /\ UNCHANGED <<adapter, config, pc, routes, total_handlers, handlers_called,
                   shutdown_tx, signals, collector, collector_holder, output, tasks,
                   nextId, replies, on_ready_calls, matched_received, slot_requests,
                   on_ready, local_addr, on_ready_arg, result, panics,
                   h_handlers, h_calls, h_log>>

\* The run's own receiver resolves: run r returns its collector's output.
RunStop(r) ==
    /\ runs[r].pc = "Serving"
    /\ runs[r].signals > 0
    /\ runs' = [runs EXCEPT ![r].pc = "Stopped", ![r].output = runs[r].collector]
    /\ UNCHANGED <<adapter, config, pc, routes, total_handlers, handlers_called,
                   shutdown_tx, signals, collector, collector_holder, output, tasks,
                   nextId, replies, on_ready_calls, matched_received, slot_requests,
                   on_ready, local_addr, on_ready_arg, result, panics,
                   h_handlers, h_calls, h_log>>

NextRuns ==
    \/ \E r \in Runs : RunStart(r)
    \/ \E r \in Runs : RunServe(r)
    \/ \E r \in Runs : RunStop(r)

SpecRuns == InitRuns /\ [][NextRuns]_vars

\* ================================================================ claims
\* Requests a declared key has received so far (0 when the declaration never
\* reached the dispatch table).
Received(k) == IF k \in DOMAIN routes THEN routes[k].call_count ELSE 0

\* Every declaration has received max(1, H) requests.
AllDeclaredHit ==
    \A i \in DOMAIN config : Received(config[i].key) >= Max(1, config[i].handlers)

Started == pc \notin {"Created", "Panicked"}

\* C1: once every declared route has received max(1, H) matching requests
\* and the request tasks have run to completion, the shutdown signal has
\* fired (so run returns without any further request).  The empty
\* configuration is left to the claim about it.
C1_TerminatesWhenAllSlotsHit ==
    (Started /\ config # <<>> /\ AllDeclaredHit /\ InFlight = {}) => signals > 0

C3_OneShot ==
    /\ signals <= 1
    /\ Started => (signals = 1 <=> ~shutdown_tx)
    /\ signals = 1 => handlers_called = total_handlers
    /\ \A t \in Tasks : tasks[t].pc = "send" => tasks[t].called = total_handlers
    /\ Cardinality({t \in Tasks : tasks[t].pc = "send"}) <= 1
    /\ (handlers_called = total_handlers /\ total_handlers > 0
          /\ \A t \in Tasks : tasks[t].pc # "send") => signals = 1

\* The signal has fired while another request task was racing through
\* handler_called().
C3_Witness ==
    /\ signals = 1
    /\ \E t, u \in Tasks : t # u /\ tasks[t].called = total_handlers
                                  /\ tasks[u].called > 0 /\ tasks[u].pc = "respond"

\* C4: handlers_called never exceeds total_handlers.
C4_ConsumedBounded == Started => handlers_called <= total_handlers

\* All slots consumed and a route called more often than it has handlers.
C4_Witness ==
    /\ handlers_called = total_handlers
    /\ total_handlers >= 2
    /\ \E k \in DOMAIN routes : routes[k].call_count > Max(1, routes[k].handlers)

\* The (call index, handler index) pairs of route k in a served set.
EntriesOf(served, k) == {e \in served : e[1] = k}

AllServed == UNION {r.served : r \in replies}

\* C5: every response to a request on a route with H >= 1 handlers comes from
\* handlers[min(i, H-1)], i being the call index the request drew.
C5_StickyLast ==
    \A r \in replies : \A k \in MatchedRoutes(r.req) :
        routes[k].handlers >= 1 =>
            /\ Cardinality(EntriesOf(r.served, k)) = 1
            /\ \A e \in EntriesOf(r.served, k) :
                   e[3] = Min(e[2], routes[k].handlers - 1)

\* The last handler has answered a call beyond the list, after every handler
\* answered its own call.
C5_Witness ==
    \E k \in DOMAIN routes :
        /\ routes[k].handlers = 2
        /\ {<<k, 0, 0>>, <<k, 1, 1>>, <<k, 2, 1>>} \subseteq AllServed

HasZeroHandlerRoute == \E k \in DOMAIN routes : routes[k].handlers = 0

\* C6: a zero-handler route counts 1 in total_handlers and its slot is
\* consumed by the first request to it: a configuration with such a route
\* has fired once each route was requested max(1, H) times and the request
\* tasks are done.
C6_ZeroHandlerSlot ==
    (Started /\ HasZeroHandlerRoute /\ Cardinality(DOMAIN routes) = Len(config)
       /\ AllDeclaredHit /\ InFlight = {})
        => (total_handlers = SumSeq([i \in DOMAIN config |-> Max(1, config[i].handlers)])
            /\ handlers_called = total_handlers
            /\ signals = 1)

\* C7: the output run returns has one record per request that matched a
\* declared route and was received before run returned, and no other record.
C7_OutputLength == pc = "Stopped" => Len(output) = matched_received

\* A request that matches no declared route and is not malformed.
Unmatched(req) == req # Malformed /\ MatchedRoutes(req) = {}

\* C8: the step that dispatches an unmatched request answers not-found /
\* unimplemented and changes neither the collector, nor a call counter, nor
\* the completion counter, nor the shutdown signal.
C8_UnmatchedFrame ==
    [][\A t \in Tasks :
         (tasks[t].pc = "dispatch" /\ tasks'[t] # tasks[t] /\ Unmatched(tasks[t].req)) =>
            /\ collector' = collector
            /\ routes' = routes
            /\ handlers_called' = handlers_called
            /\ signals' = signals /\ shutdown_tx' = shutdown_tx
            /\ tasks'[t].pc = "idle"
            /\ \E r \in replies' : r.req = tasks[t].req
                                    /\ r.kind \in {"not_found", "unimplemented"}]_vars

\* C9: once a route with H >= 1 handlers has received exactly H requests and
\* all of them are answered, each handler has answered exactly one of them.
C9_BatchMultiset ==
    \A k \in DOMAIN routes :
        (routes[k].handlers >= 1 /\ routes[k].call_count = routes[k].handlers
           /\ \A t \in Tasks : /\ tasks[t].cur # k
                                /\ k \notin tasks[t].pending
                                /\ EntriesOf(tasks[t].served, k) = {}) =>
            /\ Cardinality(EntriesOf(AllServed, k)) = routes[k].handlers
            /\ \A j \in 0..(routes[k].handlers - 1) :
                   Cardinality({e \in EntriesOf(AllServed, k) : e[3] = j}) = 1

\* Two requests of the batch were in flight together and the one that drew
\* the second handler was answered first.
C9_Witness ==
    \E k \in DOMAIN routes :
        /\ routes[k].handlers = 2 /\ routes[k].call_count = 2
        /\ <<k, 1, 1>> \in AllServed
        /\ \E t \in Tasks : tasks[t].cur = k /\ tasks[t].call_index = 0
                             /\ tasks[t].pc = "respond"

\* C10: a request whose call index is >= max(1, H) never enters
\* handler_called(), and once the signal has fired no step changes it.
C10_NoSlotBeyond ==
    [][/\ \A t \in Tasks :
            tasks'[t].pc \in {"notify", "send"} =>
                tasks'[t].call_index < Max(1, routes[tasks'[t].cur].handlers)
       /\ \A t \in Tasks :
            (tasks[t].pc = "fetch" /\ tasks'[t].pc # "fetch"
               /\ routes[tasks[t].cur].call_count >= Max(1, routes[tasks[t].cur].handlers))
              => (tasks'[t].pc = "respond" /\ handlers_called' = handlers_called)
       /\ signals > 0 => (signals' = signals /\ shutdown_tx' = shutdown_tx)]_vars

\* The signal has fired and a request that drew a call index beyond the
\* last slot has passed the comparison without entering handler_called().
C10_Witness ==
    /\ signals = 1
    /\ handlers_called = total_handlers
    /\ \E t \in Tasks :
          /\ tasks[t].pc = "respond" /\ tasks[t].called = 0
          /\ tasks[t].call_index >= Max(1, routes[tasks[t].cur].handlers)

\* C11: a request calls handler_called() at most once, and does so exactly
\* when the call index it drew is < max(1, H): the step after the counter
\* fetch enters handler_called() iff the index is below max(1, H), and a task
\* entering the completion counter has not consumed a slot before.
C11_OneSlotPerRequest ==
    [][\A t \in Tasks :
         /\ (tasks[t].pc = "fetch" /\ tasks'[t].pc # "fetch") =>
                (tasks'[t].pc = "notify" <=>
                    tasks'[t].call_index < Max(1, routes[tasks[t].cur].handlers))
         /\ (tasks[t].pc = "notify" /\ tasks'[t].pc # "notify") =>
                (tasks[t].called = 0 /\ handlers_called' = handlers_called + 1)]_vars

\* C12: shutdown is a graceful drain: while the run is shutting down no new
\* request is accepted, and the step by which run returns (state Stopped)
\* is taken only when no request is in flight, and returns every record.
C12_GracefulDrain ==
    [][/\ pc = "ShuttingDown" => nextId' = nextId
       /\ (pc # "Stopped" /\ pc' = "Stopped") =>
              (signals > 0 /\ InFlight = {} /\ output' = collector)]_vars

\* C13: after run has returned no request is received or handed to a
\* handler any more.
C13_DownAfterStop ==
    [][pc = "Stopped" =>
          (nextId' = nextId /\ \A t \in Tasks : tasks[t].pc = "idle" => tasks'[t].pc = "idle")]_vars

\* C14: a supplied on_ready callback has run exactly once, with the address
\* the listener reported, by the time the accept loop runs, and never runs
\* again; before the listener is bound it has not run; no request is
\* received before it ran.
C14_OnReadyOnce ==
    on_ready = "Some" =>
        /\ on_ready_calls <= 1
        /\ pc \in {"Serving", "ShuttingDown", "Stopped"} <=> on_ready_calls = 1
        /\ on_ready_calls = 1 => (local_addr = BoundAddr /\ on_ready_arg = local_addr)
        /\ nextId > 0 => on_ready_calls = 1

\* A whole run with a callback: requests were served and run returned.
C14_Witness ==
    on_ready = "Some" /\ on_ready_calls = 1 /\ pc = "Stopped" /\ nextId = MaxRequests

\* C15: the step that handles a request whose body cannot be decoded answers
\* with a parse-error response and changes neither the collector, nor a call
\* counter, nor the completion counter, nor the shutdown signal, nor the
\* state of the run.
C15_MalformedFrame ==
    [][\A t \in Tasks :
         (tasks[t].pc = "dispatch" /\ tasks'[t] # tasks[t] /\ tasks[t].req = Malformed) =>
            /\ tasks'[t] = IdleTask
            /\ replies' = replies \cup {[req |-> Malformed, kind |-> "parse_error",
                                          served |-> {}]}
            /\ UNCHANGED <<collector, routes, handlers_called, total_handlers,
                           signals, shutdown_tx, pc, output>>]_vars

\* A malformed request was answered and the run, still serving, works on a
\* request that matched a route.
C15_Witness ==
    /\ pc = "Serving"
    /\ \E r \in replies : r.req = Malformed /\ r.kind = "parse_error"
    /\ Len(collector) = 1
    /\ \E t \in Tasks : tasks[t].pc = "notify"

\* Two distinct routes, both in the dispatch table, one handler each.
TwoSingleRoutes ==
    /\ Len(config) = 2
    /\ config[1].key # config[2].key
    /\ \A i \in 1..2 : config[i].handlers = 1 /\ config[i].key \in DOMAIN routes

\* C16: with two routes of one handler each, the signal has not fired (and
\* run has not left the accept loop) while a route is unhit; once both are
\* hit and the request tasks are done the signal has fired exactly once and
\* the run has returned or its next shutdown step is enabled.
C16_TwoRoutes ==
    (Started /\ pc # "Failed" /\ TwoSingleRoutes) =>
        /\ (signals > 0 \/ pc \in {"ShuttingDown", "Stopped"}) =>
               \A k \in DOMAIN routes : routes[k].call_count >= 1
        /\ ((\A k \in DOMAIN routes : routes[k].call_count >= 1) /\ InFlight = {}) =>
               /\ signals = 1
               /\ pc = "Stopped" \/ ENABLED (GracefulShutdown \/ ServeReturns \/ TonicBreak \/ TonicReturns)

\* The run returned after exactly one request per route, the route declared
\* second having been requested first.
C16_Witness ==
    /\ TwoSingleRoutes
    /\ pc = "Stopped"
    /\ \A k \in DOMAIN routes : routes[k].call_count = 1
    /\ Len(output) = 2
    /\ output[1].names = {config[2].key[2]}

StepOrder ==
    {<<"idle", "dispatch">>, <<"dispatch", "fetch">>, <<"dispatch", "idle">>,
     <<"fetch", "notify">>, <<"fetch", "respond">>, <<"notify", "send">>,
     <<"notify", "respond">>, <<"send", "respond">>, <<"respond", "fetch">>,
     <<"respond", "idle">>}

C18_PanicAnswered ==
    /\ \A r \in replies : r.kind # "aborted"
    /\ panics > 0 => \E r \in replies : r.kind = "internal_error"

\* C19: when run has returned an error from binding the listener, the
\* callback has not run, no request was received or answered, no call
\* counter and no completion counter has moved, the signal was not sent and
\* no collector output exists.
C19_BindErrorNoRun ==
    result = "Err" =>
        /\ pc = "Failed"
        /\ on_ready_calls = 0 /\ on_ready_arg = Unbound
        /\ nextId = 0 /\ InFlight = {} /\ replies = {}
        /\ handlers_called = 0 /\ signals = 0
        /\ \A k \in DOMAIN routes : routes[k].call_count = 0
        /\ collector = <<>> /\ output = <<>>

\* Binding failed for a run that had routes and a callback.
C19_Witness ==
    result = "Err" /\ pc = "Failed" /\ on_ready = "Some" /\ DOMAIN routes # {}

\* C20: a configuration that declares the same route key twice is rejected
\* when the run starts: it never gets to bind, to serve or to return
\* normally with one declaration standing for both.
C20_DuplicateRejected ==
    Overlapping(config) =>
        /\ pc \in {"Created", "Panicked"}
        /\ Cardinality(DOMAIN routes) = 0

\* The dispatch step of task t reaches the collect call: HTTP and gRPC
\* collect matched requests, GraphQL every request it could decode.
ReachesCollect(t) ==
    IF adapter = "async_graphql" THEN tasks[t].req # Malformed
    ELSE MatchedRoutes(tasks[t].req) # {}

\* C21: every collect call made while the collector is still held appends
\* exactly its record, whatever the other request tasks are doing; no other
\* step changes the collected records; run returns exactly the records
\* collected so far and the returned output never changes afterwards.
C21_RecordNeverDropped ==
    [][/\ \A t \in Tasks :
            (tasks[t].pc = "dispatch" /\ tasks'[t] # tasks[t] /\ ReachesCollect(t)
               /\ (adapter = "async_graphql" \/ collector_holder)) =>
                collector' = Append(collector, tasks[t].req)
       /\ collector' # collector =>
            \E t \in Tasks : /\ tasks[t].pc = "dispatch" /\ tasks'[t] # tasks[t]
                              /\ collector' = Append(collector, tasks[t].req)
       /\ (pc # "Stopped" /\ pc' = "Stopped") => output' = collector
       /\ pc' # "Stopped" => output' = <<>>
       /\ pc = "Stopped" => (output' = output /\ collector' = collector)]_vars

\* Two request tasks have both passed their collect call and are in flight
\* together.
C21_Witness ==
    /\ Len(collector) = 2
    /\ \E t, u \in Tasks : t # u /\ tasks[t].pc = "fetch" /\ tasks[u].pc = "fetch"

\* The response r answers a request that went through the collect call.
Recorded(r) == r.kind \in {"handler", "no_handler", "empty", "data"}

\* C22: the records are kept in the order of the collect calls: a collect
\* call puts its record behind all records already there and nothing else
\* moves a record; when a request is issued, the record of every request
\* already answered is in the list, so it precedes the new request's
\* record; run returns the list in that order.
C22_ArrivalOrder ==
    [][/\ \/ collector' = collector
          \/ /\ Len(collector') = Len(collector) + 1
             /\ SubSeq(collector', 1, Len(collector)) = collector
       /\ \A t \in Tasks :
            (tasks[t].pc = "idle" /\ tasks'[t].pc = "dispatch" /\ pc # "Stopped") =>
                \A r \in replies : Recorded(r) =>
                    \E i \in 1..Len(collector) : collector[i] = r.req
       /\ \A t \in Tasks :
            (tasks[t].pc = "dispatch" /\ tasks'[t] # tasks[t] /\ collector' # collector) =>
                collector'[Len(collector')] = tasks[t].req
       /\ (pc # "Stopped" /\ pc' = "Stopped") =>
            \A i \in 1..Len(collector) : output'[i] = collector[i]]_vars

\* The first recorded request has been answered and a different request,
\* recorded behind it, is still in flight.
C22_Witness ==
    /\ Len(collector) = 2
    /\ collector[1] # collector[2]
    /\ \E r \in replies : r.req = collector[1] /\ Recorded(r)
    /\ \A r \in replies : r.req # collector[2]
    /\ \E t \in Tasks : tasks[t].req = collector[2] /\ tasks[t].pc = "fetch"

\* The handler that answered a logged request.
HandlerOf(e) == h_handlers[e.handler_index + 1]

C25_RespondByVariant ==
    [][/\ h_handlers' = h_handlers
       /\ \A e \in h_log' :
            /\ HandlerOf(e).kind = "Static" => e.response = HandlerOf(e).data
            /\ HandlerOf(e).kind = "Dynamic" =>
                  e.response = ApplyFn(adapter, HandlerOf(e).f, e.ctx)]_vars

\* A Static handler answered two different contexts and then a Dynamic
\* handler transformed a non-empty payload.
C25_Witness ==
    /\ \E e1, e2 \in h_log :
          /\ e1.handler_index = e2.handler_index /\ e1.ctx # e2.ctx
          /\ HandlerOf(e1).kind = "Static" /\ e1.response = e2.response
    /\ \E e \in h_log :
          /\ HandlerOf(e).kind = "Dynamic" /\ HandlerOf(e).f = "twice"
          /\ Len(e.response) = 2 * Len(Payload(adapter, e.ctx)) /\ e.response # <<>>

\* C24: every record is the decoded form of one inbound request that
\* matched a route: a step that adds a record adds the request of a task
\* that matched, a record once written is never altered, and the output
\* consists of such records only.
C24_SnapshotOfMatched ==
    [][/\ \A i \in 1..Len(collector) : i <= Len(collector') /\ collector'[i] = collector[i]
       /\ Len(collector') > Len(collector) =>
            \E t \in Tasks : /\ tasks[t].pc = "dispatch" /\ tasks'[t] # tasks[t]
                              /\ collector'[Len(collector')] = tasks[t].req
                              /\ MatchedRoutes(tasks[t].req) # {}
       /\ \A i \in 1..Len(output') : MatchedRoutes(output'[i]) # {}]_vars

\* C26: a step in which a run neither received a request nor changed its
\* lifecycle state leaves everything that run owns unchanged (counters,
\* records, signal); a run has returned only with all of its own slots
\* consumed, and has its signal as soon as they are.
C26_RunsIndependent ==
    [][\A q \in Runs :
         /\ (runs'[q].sent = runs[q].sent /\ runs'[q].pc = runs[q].pc) => runs'[q] = runs[q]
         /\ runs'[q].pc = "Stopped" =>
                (runs'[q].signals = 1
                   /\ runs'[q].handlers_called = runs'[q].total_handlers)
         /\ runs'[q].handlers_called <= runs'[q].sent
         /\ (runs'[q].total_handlers > 0
               /\ runs'[q].handlers_called = runs'[q].total_handlers) =>
                runs'[q].signals = 1]_vars

\* One run has returned while the other, with a slot consumed and a slot
\* open, is still serving.
C26_Witness ==
    /\ runs # <<>>
    /\ runs[1].pc = "Stopped" /\ Len(runs[1].output) = 1
    /\ runs[2].pc = "Serving" /\ runs[2].total_handlers = 2
    /\ runs[2].handlers_called = 1

\* Request tasks that hold a call index of route k.
Holding(k) == {t \in Tasks : tasks[t].cur = k /\ tasks[t].pc \in {"notify", "send", "respond"}}

RECURSIVE SlotsDrawn(_)
\* Over a set of routes: the call indices below the threshold issued so far.
SlotsDrawn(K) ==
    IF K = {} THEN 0
    ELSE LET k == CHOOSE x \in K : TRUE
         IN  Min(routes[k].call_count, Threshold(adapter, routes[k].handlers))
               + SlotsDrawn(K \ {k})

\* C27: the n-th request to pass a route's increment draws index n-1: the
\* indices held by requests in flight on one route are pairwise distinct and
\* below the route's counter, an answered request's index is below it too,
\* and every index below the threshold counts exactly one completion slot.
C27_IndicesDistinct ==
    /\ \A k \in DOMAIN routes :
          /\ \A t, u \in Holding(k) : t # u => tasks[t].call_index # tasks[u].call_index
          /\ \A t \in Holding(k) : tasks[t].call_index < routes[k].call_count
          /\ \A e \in EntriesOf(AllServed, k) : e[2] < routes[k].call_count
          /\ routes[k].call_count <= nextId
    /\ handlers_called + Cardinality({t \in Tasks : tasks[t].pc = "notify"})
          = SlotsDrawn(DOMAIN routes)

\* Two requests on the same route are in flight together, one holds the
\* index of the last handler slot and the other an index beyond it.
C27_Witness ==
    \E k \in DOMAIN routes : \E t, u \in Holding(k) :
        /\ routes[k].handlers = 2
        /\ tasks[t].call_index = 1 /\ tasks[u].call_index = 2

RECURSIVE RouteSum(_)
\* Sum of max(1, handlers) over a set of registered routes.
RouteSum(K) ==
    IF K = {} THEN 0
    ELSE LET k == CHOOSE x \in K : TRUE
         IN  Max(1, routes[k].handlers) + RouteSum(K \ {k})

\* C28: once the route table is built, total_handlers is the sum of
\* max(1, handlers) over the routes registered for dispatch.
C28_TotalFromRouteTable ==
    pc \in {"Binding", "Ready", "Serving", "ShuttingDown", "Stopped"} =>
        total_handlers = RouteSum(DOMAIN routes)

\* C29: a run of the empty configuration needs no request: when its accept
\* loop runs the shutdown signal has already been sent, and nothing was
\* received when it returns its empty output.
C29_EmptyTerminates ==
    (config = <<>> /\ pc \in {"Serving", "ShuttingDown", "Stopped"}) =>
        (signals = 1 /\ nextId = 0 /\ output = <<>>)

\* The order of the lifecycle states, and the exits of a run that fails
\* before it serves.
LifecycleSteps ==
    {<<"Created", "Binding">>, <<"Binding", "Ready">>, <<"Ready", "Serving">>,
     <<"Serving", "ShuttingDown">>, <<"ShuttingDown", "Stopped">>,
     <<"Created", "Panicked">>, <<"Binding", "Failed">>}

\* C30: run() changes state only along Binding, Ready, Serving,
\* ShuttingDown, Stopped (or leaves with an error before serving); it
\* enters Serving with the listener's address known and ShuttingDown only
\* after the shutdown signal was sent.
C30_LifecycleOrder ==
    [][pc' # pc =>
          /\ <<pc, pc'>> \in LifecycleSteps
          /\ pc' = "Serving" => local_addr = BoundAddr
          /\ pc' = "ShuttingDown" => signals > 0]_vars

\* A run went through every lifecycle state and returned its output.
C30_Witness ==
    /\ pc = "Stopped" /\ result = "Ok"
    /\ local_addr = BoundAddr /\ signals = 1
    /\ Len(output) = 2

\* C31: a step that moves a call counter belongs to one request task at its
\* fetch_add, and adds exactly one to the counter of the route that task is
\* on, a route its request matched, leaving the other counters alone; no
\* counter decreases; and a request draws from a counter once only, right
\* after it was dispatched.
C31_CounterPerRoute ==
    [][pc # "Created" =>
          /\ DOMAIN routes' = DOMAIN routes
          /\ \A k \in DOMAIN routes : routes'[k].call_count >= routes[k].call_count
          /\ routes' # routes =>
                \E t \in Tasks :
                    /\ tasks[t].pc = "fetch" /\ tasks'[t].pc # "fetch"
                    /\ tasks[t].cur \in MatchedRoutes(tasks[t].req)
                    /\ routes' = [routes EXCEPT
                                    ![tasks[t].cur].call_count = routes[tasks[t].cur].call_count + 1]
          /\ \A t \in Tasks :
                (tasks'[t].pc = "fetch" /\ tasks[t].pc # "fetch") => tasks[t].pc = "dispatch"]_vars

\* C32: a request inside handler_called() has its record in the collector
\* already; when the shutdown signal has fired the collector holds at least
\* total_handlers records, and the output run returned has at least
\* total_handlers records.
C32_OutputCoversSlots ==
    /\ \A t \in Tasks :
          tasks[t].pc \in {"notify", "send"} =>
              \E i \in 1..Len(collector) : collector[i] = tasks[t].req
    /\ signals > 0 => Len(collector) >= total_handlers
    /\ pc = "Stopped" => Len(output) >= total_handlers

RECURSIVE CountedCalls(_)
\* Over a set of routes: sum of min(call_count, T), T being handlers.len()
\* for HTTP and GraphQL and handlers.len().max(1) for gRPC.
CountedCalls(K) ==
    IF K = {} THEN 0
    ELSE LET k == CHOOSE x \in K : TRUE
             T == IF adapter = "tonic" THEN Max(routes[k].handlers, 1)
                  ELSE routes[k].handlers
         IN  Min(routes[k].call_count, T) + CountedCalls(K \ {k})

\* C33: handlers_called never exceeds the sum over the routes of
\* min(call_count, T), and equals it whenever no request task stands between
\* its call_count.fetch_add and the fetch_add of handler_called().
C33_ConsumedByRoutes ==
    /\ handlers_called <= CountedCalls(DOMAIN routes)
    /\ (\A t \in Tasks : tasks[t].pc # "notify") =>
          handlers_called = CountedCalls(DOMAIN routes)

\* A slot is consumed, a request task has drawn an index below the threshold
\* and not yet entered the completion counter, and some route was called
\* more often than its threshold.
C33_Witness ==
    /\ handlers_called >= 1
    /\ handlers_called < CountedCalls(DOMAIN routes)
    /\ \E t \in Tasks : tasks[t].pc = "notify"
    /\ \E k \in DOMAIN routes : routes[k].call_count > Max(routes[k].handlers, 1)

OnZeroHandlerRoute(t) ==
    tasks[t].cur \in DOMAIN routes /\ routes[tasks[t].cur].handlers = 0

\* C35: a request to a declared route without handlers is recorded by its
\* dispatch step, adds one to the route's call counter, gets no handler
\* response for that route, and is answered with the adapter's no-response
\* reply (HTTP "No handler configured", gRPC the empty message, GraphQL a
\* data object the field adds nothing to).
C35_ZeroHandlerReply ==
    [][\A t \in Tasks :
         /\ (tasks[t].pc = "dispatch" /\ tasks'[t] # tasks[t]
               /\ \E k \in MatchedRoutes(tasks[t].req) : routes[k].handlers = 0) =>
                collector' = Append(collector, tasks[t].req)
         /\ (tasks[t].pc = "fetch" /\ tasks'[t] # tasks[t] /\ OnZeroHandlerRoute(t)) =>
                routes'[tasks[t].cur].call_count = routes[tasks[t].cur].call_count + 1
         /\ (tasks[t].pc = "respond" /\ tasks'[t] # tasks[t] /\ OnZeroHandlerRoute(t)) =>
                /\ EntriesOf(tasks'[t].served, tasks[t].cur) = {}
                /\ tasks'[t].pc = "idle" =>
                      \E r \in replies' :
                          /\ r.req = tasks[t].req
                          /\ EntriesOf(r.served, tasks[t].cur) = {}
                          /\ adapter = "axum" => r.kind = "no_handler"
                          /\ adapter = "tonic" => r.kind = "empty"
                          /\ adapter = "async_graphql" => r.kind = "data"]_vars

\* The query text of a request, without surrounding whitespace, starts with
\* "mutation".
MutationText(req) == req.part1 \in {"mutation", " mutation"}

\* C36: every step of a GraphQL request works on fields of one operation
\* type only, Mutation when its trimmed query starts with "mutation" and
\* Query otherwise: the field it is on, the fields still to visit and the
\* handlers that answered are of that type, the call counters of the other
\* type's fields do not move, and a slot it consumes is a slot of a field of
\* that type.
C36_OperationTypeFrame ==
    [][adapter = "async_graphql" =>
          \A t \in Tasks :
              (tasks[t].pc # "idle" /\ tasks'[t] # tasks[t]) =>
                  LET op == IF MutationText(tasks[t].req) THEN "Mutation" ELSE "Query"
                  IN  /\ \A k \in DOMAIN routes : k[1] # op => routes'[k] = routes[k]
                      /\ tasks'[t].pc \in {"fetch", "notify", "send", "respond"} =>
                            tasks'[t].cur[1] = op
                      /\ \A k \in tasks'[t].pending : k[1] = op
                      /\ \A e \in tasks'[t].served : e[1][1] = op
                      /\ \A r \in replies' \ replies : \A e \in r.served : e[1][1] = op
                      /\ handlers_called' # handlers_called => tasks[t].cur[1] = op]_vars

\* Field a is declared under Query and under Mutation; a mutation request
\* naming a was answered by the Mutation field's handler and the Query
\* field's counter has not moved.
C36_Witness ==
    /\ adapter = "async_graphql"
    /\ {<<"Query", "a">>, <<"Mutation", "a">>} \subseteq DOMAIN routes
    /\ routes[<<"Mutation", "a">>].call_count = 1
    /\ routes[<<"Query", "a">>].call_count = 0
    /\ handlers_called = 1
    /\ \E r \in replies : r.req.part1 = " mutation" /\ r.served = {<<<<"Mutation", "a">>, 0, 0>>}

\* C37: once run() has built the route table no step adds or removes a
\* route or changes the handlers of a route: the table keeps the keys and
\* the handler lists it was built with from the configuration, which does
\* not change either, and a step that changes a route changes its call
\* counter only.
C37_RouteTableImmutable ==
    [][pc # "Created" =>
          /\ config' = config
          /\ DOMAIN routes' = DOMAIN routes
          /\ \A k \in DOMAIN routes :
                routes'[k] = [routes[k] EXCEPT !.call_count = routes'[k].call_count]
          /\ pc # "Panicked" =>
                /\ DOMAIN routes' = DOMAIN BuildRoutes(adapter, config)
                /\ \A k \in DOMAIN routes' :
                      routes'[k].handlers = BuildRoutes(adapter, config)[k].handlers]_vars

\* The run returned after two routes were requested, one of them more often
\* than it has handlers.
C37_Witness ==
    /\ pc = "Stopped"
    /\ Cardinality(DOMAIN routes) = 2
    /\ \A k \in DOMAIN routes : routes[k].call_count >= 1
    /\ \E k \in DOMAIN routes : routes[k].handlers = 1 /\ routes[k].call_count = 2

\* The number a 4-byte big-endian field stands for.
BigEndian(b) == ((b[1] * 256 + b[2]) * 256 + b[3]) * 256 + b[4]

\* C38: in the gRPC adapter the message of the record and of the handler's
\* context is the request body without its first 5 bytes, empty for a body
\* of at most 5 bytes; the response body is the byte 0, four bytes holding
\* the payload length in big-endian order, and then the handler's payload.
C38_GrpcFraming ==
    adapter = "tonic" =>
        \A e \in h_log :
            /\ Len(e.wire.body) <= 5 => (e.record.message = <<>> /\ e.ctx.message = <<>>)
            /\ Len(e.wire.body) > 5 =>
                  /\ Len(e.record.message) = Len(e.wire.body) - 5
                  /\ \A i \in 1..Len(e.record.message) :
                        e.record.message[i] = e.wire.body[i + 5]
                  /\ e.ctx.message = e.record.message
            /\ Len(e.frame) = 5 + Len(e.response)
            /\ e.frame[1] = 0
            /\ \A i \in 2..5 : e.frame[i] \in 0..255
            /\ BigEndian(SubSeq(e.frame, 2, 5)) = Len(e.response)
            /\ SubSeq(e.frame, 6, Len(e.frame)) = e.response

\* A request with a two-byte message was echoed back in a frame, a request
\* with a bare prefix got an empty message, and a canned response longer
\* than 255 bytes was framed.
C38_Witness ==
    /\ adapter = "tonic"
    /\ \E e \in h_log : Len(e.wire.body) = 7 /\ e.frame = <<0, 0, 0, 0, 2, 7, 8>>
    /\ \E e \in h_log : Len(e.wire.body) = 5 /\ e.record.message = <<>>
    /\ \E e \in h_log : Len(e.response) > 255 /\ e.frame[4] >= 1

====
